---- MODULE Spec2Model ----
(***************************************************************************)
(* Ranger IMS: the incident data model (ims/data.py), the file-backed      *)
(* record store (ims/store.py) and the edit handler (ims/protocol.py).     *)
(*                                                                         *)
(* Representation.  A Python value that may be None is an option: None is  *)
(* the empty tuple and a present value v is <<v>>.  A DateTime is a record *)
(* [sec, usec]; the wire format "%Y-%m-%dT%H:%M:%SZ" keeps the seconds     *)
(* only.  A text is the sequence of its lines; a line is a record [kind,   *)
(* what, items].  A JSON object is a function from its keys to option      *)
(* values, and the bytes of a file are None (a zero-length file) or        *)
(* <<root>> (the JSON text of root).                                       *)
(***************************************************************************)
EXTENDS Integers, Sequences, FiniteSets, TLC

VARIABLES storage, ret, returned, quiet, present, written, dms

vars == <<storage, ret, returned, quiet, present, written, dms>>

(***************************************************************************)
(* Bounds                                                                  *)
(***************************************************************************)
MaxNumber == 2

MaxEntries == 2

MaxPermuted == 3

\* The entries of a record that is edited again and again.
MaxAppended == 4

Numbers == 1..MaxNumber

(***************************************************************************)
(* Python values                                                           *)
(***************************************************************************)
None == <<>>

Some(v) == <<v>>

Val(o) == o[1]

Get(root, key) == IF key \in DOMAIN root THEN root[key] ELSE None

Return(v) == [status |-> "ok", value |-> v]

Raise(e) == [status |-> e, value |-> None]

DateTime(s, u) == [sec |-> s, usec |-> u]

Line(kind, what, items) == [kind |-> kind, what |-> what, items |-> items]

UserText(s) == <<Line("text", s, {})>>

SeqToSet(s) == {s[i] : i \in DOMAIN s}

(***************************************************************************)
(* ims/data.py                                                             *)
(***************************************************************************)
DefaultPriority == 5

MinPriority == 1

MaxPriority == 5

states == <<"created", "dispatched", "on_scene", "closed">>

stateIndex(a) == CHOOSE i \in DOMAIN states : states[i] = a

cmpStates(a, b) ==
    IF stateIndex(a) < stateIndex(b) THEN -1
    ELSE IF stateIndex(a) > stateIndex(b) THEN 1 ELSE 0

describe(key) ==
    CASE key = "created" -> "new"
      [] key = "on_scene" -> "on scene"
      [] key = "location_name" -> "location name"
      [] key = "location_address" -> "location address"
      [] key = "ranger_handles" -> "ranger handles"
      [] key = "incident_types" -> "incident types"
      [] key = "report_entries" -> "report entries"
      [] key = "system_entry" -> "system entry"
      [] OTHER -> key

Junk == "Junk"

Admin == "Admin"

Location(name, address) == [name |-> name, address |-> address]

Ranger(handle, name, status) == [handle |-> handle, name |-> name, status |-> status]

\* ReportEntry.__init__: a missing created time is the current time.
ReportEntry(author, text, created, system_entry, utcnow) ==
    [author |-> author, text |-> text,
     created |-> IF created = None THEN Some(utcnow) ELSE created,
     system_entry |-> system_entry]

\* Incident.__init__: a missing priority is 5.
Incident(number, rangers, location, incident_types, summary, report_entries, created, dispatched, on_scene, closed, priority) ==
    [number |-> number, rangers |-> rangers, location |-> location,
     incident_types |-> incident_types, summary |-> summary,
     report_entries |-> report_entries,
     created |-> created, dispatched |-> dispatched,
     on_scene |-> on_scene, closed |-> closed,
     priority |-> IF priority = None THEN Some(DefaultPriority) ELSE priority]

RangerValidates(r) == r.name # None /\ r.status # None

ReportEntryValidates(e) == e.text # None /\ e.created # None

PriorityValidates(p) == p # None /\ MinPriority <= Val(p) /\ Val(p) <= MaxPriority

\* Incident.validate: TRUE when no InvalidDataError is raised.
validate(i) ==
    /\ i.rangers # None
    /\ \A k \in DOMAIN Val(i.rangers) : RangerValidates(Val(i.rangers)[k])
    /\ i.report_entries # None =>
          \A k \in DOMAIN Val(i.report_entries) :
              ReportEntryValidates(Val(i.report_entries)[k])
    /\ PriorityValidates(i.priority)

parse_date(rfc3339) ==
    IF rfc3339 = None THEN None ELSE Some(DateTime(Val(rfc3339), 0))

render_date(date_time) ==
    IF date_time = None THEN None ELSE Some(Val(date_time).sec)

EntryFromJson(entry, utcnow) ==
    ReportEntry(
        IF "author" \in DOMAIN entry THEN entry["author"] ELSE Some("<unknown>"),
        Get(entry, "text"),
        parse_date(Get(entry, "created")),
        Get(entry, "system_entry") = Some(TRUE),
        utcnow)

\* The number check left out.
NumberCheckSkipped(json_number, number) == TRUE

NumberCheck(json_number, number) == json_number = None \/ Val(json_number) = number

\* Incident.from_json; utcnow is the clock read by ReportEntry.__init__.
from_json(root, number, do_validate, utcnow) ==
    LET json_number    == Get(root, "number")
        ranger_handles == Get(root, "ranger_handles")
        entries_json   == IF "report_entries" \in DOMAIN root
                          THEN root["report_entries"] ELSE Some(<<>>)
    IN
    IF ~NumberCheck(json_number, number) THEN Raise("InvalidDataError")
    ELSE IF ranger_handles # None
            /\ \E k \in DOMAIN Val(ranger_handles) : Val(ranger_handles)[k] = ""
    THEN Raise("InvalidDataError")
    ELSE IF entries_json = None THEN Raise("TypeError")
    ELSE
    LET incident == Incident(
            number,
            IF ranger_handles = None THEN None
            ELSE Some([k \in DOMAIN Val(ranger_handles) |->
                          Ranger(Val(ranger_handles)[k], None, None)]),
            Some(Location(Get(root, "location_name"), Get(root, "location_address"))),
            Get(root, "incident_types"),
            Get(root, "summary"),
            Some([k \in DOMAIN Val(entries_json) |->
                     EntryFromJson(Val(entries_json)[k], utcnow)]),
            parse_date(Get(root, "created")),
            parse_date(Get(root, "dispatched")),
            parse_date(Get(root, "on_scene")),
            parse_date(Get(root, "closed")),
            Get(root, "priority"))
    IN IF do_validate /\ ~validate(incident) THEN Raise("InvalidDataError")
       ELSE Return(incident)

EntryToJson(entry) ==
    [author |-> entry.author, text |-> entry.text,
     created |-> render_date(entry.created),
     system_entry |-> Some(entry.system_entry)]

\* Incident.to_json_text: the JSON text, or the exception raised on a null
\* location, ranger list or report entry list.
to_json_text(i) ==
    IF i.location = None THEN Raise("AttributeError")
    ELSE IF i.rangers = None \/ i.report_entries = None THEN Raise("TypeError")
    ELSE Return(
        [number |-> Some(i.number),
         priority |-> i.priority,
         summary |-> i.summary,
         location_name |-> Val(i.location).name,
         location_address |-> Val(i.location).address,
         incident_types |-> IF i.incident_types = None THEN Some(<<>>)
                            ELSE i.incident_types,
         created |-> render_date(i.created),
         dispatched |-> render_date(i.dispatched),
         on_scene |-> render_date(i.on_scene),
         closed |-> render_date(i.closed),
         ranger_handles |-> Some([k \in DOMAIN Val(i.rangers) |-> Val(i.rangers)[k].handle]),
         report_entries |-> Some([k \in DOMAIN Val(i.report_entries) |->
                                     EntryToJson(Val(i.report_entries)[k])])])

\* Incident.from_json_io on the bytes of a file.
from_json_io(data, number, utcnow) ==
    IF data = None THEN Raise("ValueError")
    ELSE from_json(Val(data), number, TRUE, utcnow)

(***************************************************************************)
(* ims/store.py                                                            *)
(* A store is [path, incidents, incident_etags, max_incident_number]:      *)
(* path maps the numbers that name a file to the file's bytes, incidents   *)
(* is None or <<the set of known numbers>>, incident_etags maps cache keys *)
(* to etags, max_incident_number is None until provision() has run.  A     *)
(* cache key is <<"int", n>> or <<"str", n>>: the integer n, or the text   *)
(* of n as a URL segment; both name the file n.                            *)
(***************************************************************************)
IntKey(n) == <<"int", n>>

StrKey(n) == <<"str", n>>

KeyNumber(key) == key[2]

etag_hash(data) == <<"sha1", data>>

NewStorage(files) ==
    [path |-> files, incidents |-> None, incident_etags |-> <<>>,
     max_incident_number |-> None]

Out(self, result) == [self |-> self, result |-> result]

\* _open_incident(number, "r") followed by read(): the bytes, or the error.
read_incident_with_number_raw(self, key) ==
    IF KeyNumber(key) \in DOMAIN self.path
    THEN Return(self.path[KeyNumber(key)])
    ELSE Raise("NoSuchIncidentError")

etag_for_incident_with_number(self, key) ==
    IF key \in DOMAIN self.incident_etags
    THEN Out(self, Return(self.incident_etags[key]))
    ELSE LET data == read_incident_with_number_raw(self, key) IN
         IF data.status # "ok" THEN Out(self, data)
         ELSE LET etag == etag_hash(data.value) IN
              Out([self EXCEPT !.incident_etags = (key :> etag) @@ @], Return(etag))

read_incident_with_number(self, number, utcnow) ==
    IF number \in DOMAIN self.path
    THEN from_json_io(self.path[number], number, utcnow)
    ELSE Raise("NoSuchIncidentError")

\* list_incidents, run to exhaustion: the known numbers are read from the
\* directory on the first call, and every pair yielded caches its etag.
list_incidents(self) ==
    LET known == IF self.incidents = None THEN DOMAIN self.path ELSE Val(self.incidents)
        keys  == {IntKey(n) : n \in known}
    IN
    IF \E n \in known : n \notin DOMAIN self.path /\ IntKey(n) \notin DOMAIN self.incident_etags
    THEN Out([self EXCEPT !.incidents = Some(known)], Raise("NoSuchIncidentError"))
    ELSE LET etags == [k \in (DOMAIN self.incident_etags) \cup keys |->
                          IF k \in DOMAIN self.incident_etags THEN self.incident_etags[k]
                          ELSE etag_hash(self.path[KeyNumber(k)])]
         IN Out([self EXCEPT !.incidents = Some(known), !.incident_etags = etags],
                Return({<<n, etags[IntKey(n)]>> : n \in known}))

SetMax(S) == IF S = {} THEN 0 ELSE CHOOSE m \in S : \A x \in S : x <= m

provision(self) ==
    IF self.max_incident_number # None THEN self
    ELSE LET listed == list_incidents(self) IN
         [listed.self EXCEPT !.max_incident_number =
             Some(SetMax({0} \cup Val(listed.self.incidents)))]

ClearEtag(etags, number) ==
    [k \in (DOMAIN etags) \ {IntKey(number)} |-> etags[k]]

UpdateMaxNever(max, number) == max

UpdateMax(max, number) == IF number > max THEN number ELSE max

\* The file opened for writing before the incident is validated.
write_incident_opened_first(self, incident) ==
    LET s1   == provision(self)
        text == to_json_text(incident)
    IN
    IF ~validate(incident) \/ text.status # "ok"
    THEN [self |-> [s1 EXCEPT !.path = (incident.number :> None) @@ @],
          result |-> IF ~validate(incident) THEN Raise("InvalidDataError") ELSE text, writes |-> 1]
    ELSE [self |-> [s1 EXCEPT !.path = (incident.number :> Some(text.value)) @@ @,
                              !.incidents = Some(Val(@) \cup {incident.number}),
                              !.incident_etags = ClearEtag(@, incident.number),
                              !.max_incident_number = Some(UpdateMax(Val(@), incident.number))],
          result |-> Return(incident.number), writes |-> 1]

\* Storage.write_incident: the file is opened for writing (created or
\* truncated) before the incident is encoded.  writes counts the files
\* opened for writing.
write_incident(self, incident) ==
    IF ~validate(incident) THEN [self |-> self, result |-> Raise("InvalidDataError"), writes |-> 0]
    ELSE
    LET s1     == provision(self)
        number == incident.number
        text   == to_json_text(incident)
    IN
    IF text.status # "ok"
    THEN [self |-> [s1 EXCEPT !.path = (number :> None) @@ @], result |-> text, writes |-> 1]
    ELSE [self |-> [s1 EXCEPT !.path = (number :> Some(text.value)) @@ @,
                              !.incidents = Some(Val(@) \cup {number}),
                              !.incident_etags = ClearEtag(@, number),
                              !.max_incident_number = Some(UpdateMax(Val(@), number))],
          result |-> Return(number), writes |-> 1]

next_incident_number_stale(self) ==
    LET s1 == provision(self) IN
    Out([s1 EXCEPT !.max_incident_number = Some(Val(@) + 1)],
        Return(Val(s1.max_incident_number)))

next_incident_number(self) ==
    LET s1 == provision(self) IN
    Out([s1 EXCEPT !.max_incident_number = Some(Val(@) + 1)],
        Return(Val(s1.max_incident_number) + 1))

(***************************************************************************)
(* ims/protocol.py: edit_incident                                          *)
(* The loop over the payload's keys works on acc = [incident,              *)
(* user_entries, system_messages, state_changes, error]; order is the      *)
(* order in which the dict yields the keys.                                *)
(***************************************************************************)
Shown(key, new) ==
    IF key = "priority"
    THEN (IF Val(new) = 0 THEN "<no value>" ELSE ToString(Val(new)))
    ELSE (IF Val(new) = "" THEN "<no value>" ELSE Val(new))

log_edit_value(acc, key, old, new) ==
    IF key = "number" THEN acc
    ELSE IF old = new THEN acc
    ELSE IF key \in SeqToSet(states)
    THEN [acc EXCEPT !.state_changes = Append(@, <<key, new>>)]
    ELSE [acc EXCEPT !.system_messages = Append(@, Line("Changed", describe(key), {Shown(key, new)}))]

OptSet(o) == IF o = None THEN {} ELSE SeqToSet(Val(o))

diff_set(old, new) == [added |-> OptSet(new) \ OptSet(old), removed |-> OptSet(old) \ OptSet(new)]

log_edit_set(acc, key, added, removed) ==
    LET m1 == IF added # {} THEN <<Line("Added to", describe(key), added)>> ELSE <<>>
        m2 == IF removed # {} THEN <<Line("Removed from", describe(key), removed)>> ELSE <<>>
    IN [acc EXCEPT !.system_messages = @ \o m1 \o m2]

\* Junk that closes nothing.
close_incident_never(acc, edits, now) == acc

RECURSIVE close_from(_, _, _, _)
close_from(acc, edits, now, k) ==
    IF k > Len(states) THEN acc
    ELSE LET key == states[k] IN
         IF acc.incident[key] = None /\ edits[key] = None
         THEN close_from([log_edit_value(acc, key, acc.incident[key], Some(now))
                             EXCEPT !.incident[key] = Some(now)], edits, now, k + 1)
         ELSE close_from(acc, edits, now, k + 1)

close_incident(acc, edits, now) == close_from(acc, edits, now, 1)

JunkAdded(old, new) == Junk \in (OptSet(new) \ OptSet(old))

Handles(rangers) == {r.handle : r \in rangers}

ScalarKeys == {"number", "priority", "summary", "created", "dispatched", "on_scene", "closed"}

EditKeys == ScalarKeys \cup {"report_entries", "location_name", "location_address", "ranger_handles", "incident_types"}

AttrOf(i, key) == IF key = "number" THEN Some(i.number) ELSE i[key]

SetAttr(i, key, value) == IF key = "number" THEN [i EXCEPT !.number = Val(value)] ELSE [i EXCEPT ![key] = value]

\* Timeline keys edited whatever created is.
NotEditingState_never(edits, key) == FALSE

\* The created key edited also when created is null.
NotEditingState_but_created(edits, key) == key \in SeqToSet(states) \ {"created"} /\ edits.created = None

\* "If created is None, then we aren't editing state": the timeline keys
\* are skipped.
NotEditingState(edits, key) == key \in SeqToSet(states) /\ edits.created = None

\* The body of the loop for one key.
edit_key(acc, edits, key, avatarId, now) ==
    IF acc.error # None THEN acc
    ELSE IF key \notin EditKeys THEN [acc EXCEPT !.error = Some("AttributeError")]
    ELSE IF key = "report_entries"
    THEN [acc EXCEPT !.user_entries =
             @ \o [k \in DOMAIN Val(edits.report_entries) |->
                      [Val(edits.report_entries)[k] EXCEPT !.author = Some(avatarId)]]]
    ELSE IF key = "location_name"
    THEN IF Val(edits.location).name = None THEN acc
         ELSE [log_edit_value(acc, key, Val(acc.incident.location).name, Val(edits.location).name)
                  EXCEPT !.incident.location = Some([Val(@) EXCEPT !.name = Val(edits.location).name])]
    ELSE IF key = "location_address"
    THEN IF Val(edits.location).address = None THEN acc
         ELSE [log_edit_value(acc, key, Val(acc.incident.location).address, Val(edits.location).address)
                  EXCEPT !.incident.location = Some([Val(@) EXCEPT !.address = Val(edits.location).address])]
    ELSE IF key = "ranger_handles"
    THEN IF edits.rangers = None THEN acc
         ELSE LET d == diff_set(acc.incident.rangers, edits.rangers) IN
              [log_edit_set(acc, key, Handles(d.added), Handles(d.removed))
                  EXCEPT !.incident.rangers = edits.rangers]
    ELSE IF key = "incident_types"
    THEN IF edits.incident_types = None THEN acc
         ELSE LET d  == diff_set(acc.incident.incident_types, edits.incident_types)
                  a1 == log_edit_set(acc, key, d.added, d.removed)
                  a2 == IF JunkAdded(acc.incident.incident_types, edits.incident_types)
                        THEN close_incident(a1, edits, now) ELSE a1
              IN [a2 EXCEPT !.incident.incident_types = edits.incident_types]
    ELSE LET attr_value == AttrOf(edits, key) IN
         IF NotEditingState(edits, key) THEN acc
         ELSE IF key \notin SeqToSet(states) /\ attr_value = None THEN acc
         ELSE [log_edit_value(acc, key, AttrOf(acc.incident, key), attr_value)
                  EXCEPT !.incident = SetAttr(@, key, attr_value)]

RECURSIVE edit_keys(_, _, _, _, _)
edit_keys(acc, edits, order, avatarId, now) ==
    IF order = <<>> THEN acc
    ELSE edit_keys(edit_key(acc, edits, Head(order), avatarId, now), edits, Tail(order), avatarId, now)

\* The lowest-ordered change to a value reported.
HighestChange_lowest(state_changes) ==
    LET set == {c[1] : c \in {c \in SeqToSet(state_changes) : c[2] # None}} IN
    IF set = {} THEN None ELSE Some(CHOOSE k \in set : \A j \in set : cmpStates(j, k) >= 0)

HighestChange(state_changes) ==
    LET set == {c[1] : c \in {c \in SeqToSet(state_changes) : c[2] # None}} IN
    IF set = {} THEN None ELSE Some(CHOOSE k \in set : \A j \in set : cmpStates(j, k) <= 0)

LowestChange(state_changes) ==
    LET unset == {c[1] : c \in {c \in SeqToSet(state_changes) : c[2] = None}} IN
    IF unset = {} THEN None ELSE Some(CHOOSE k \in unset : \A j \in unset : cmpStates(j, k) >= 0)

\* The un-set state itself reported.
StateBefore_same(state) == Some(state)

\* The state before lowest_change in JSON.states(), None before the first.
StateBefore(state) == IF stateIndex(state) = 1 THEN None ELSE Some(states[stateIndex(state) - 1])

\* "Figure out what to report about state changes": the messages with the
\* state line appended, or the error of describing a state that is None.
report_state(acc) ==
    LET highest_change == HighestChange(acc.state_changes)
        lowest_change  == LowestChange(acc.state_changes)
    IN
    IF acc.error # None THEN acc
    ELSE IF highest_change # None
    THEN [acc EXCEPT !.system_messages = Append(@, Line("State changed to", describe(Val(highest_change)), {}))]
    ELSE IF lowest_change # None
    THEN LET last == StateBefore(Val(lowest_change)) IN
         IF last = None THEN [acc EXCEPT !.error = Some("AttributeError")]
         ELSE [acc EXCEPT !.system_messages = Append(@, Line("State changed to", describe(Val(last)), {}))]
    ELSE acc

\* A system entry added whether or not there are messages.
add_entries_always(acc, avatarId, utcnow) ==
    [acc.incident EXCEPT !.report_entries =
        Some(Val(@) \o <<ReportEntry(Some(avatarId), Some(acc.system_messages), None, TRUE, utcnow)>> \o acc.user_entries)]

\* The user's entries put before the system entry.
add_entries_user_first(acc, avatarId, utcnow) ==
    LET system == IF acc.system_messages # <<>>
                  THEN <<ReportEntry(Some(avatarId), Some(acc.system_messages), None, TRUE, utcnow)>>
                  ELSE <<>>
    IN [acc.incident EXCEPT !.report_entries = Some(Val(@) \o acc.user_entries \o system)]

\* "Add system report entries, then user entries".
add_entries(acc, avatarId, utcnow) ==
    LET system == IF acc.system_messages # <<>>
                  THEN <<ReportEntry(Some(avatarId), Some(acc.system_messages), None, TRUE, utcnow)>>
                  ELSE <<>>
    IN [acc.incident EXCEPT !.report_entries = Some(Val(@) \o system \o acc.user_entries)]

NoEdit == [stored |-> None, edits |-> None, state_changes |-> <<>>, system_messages |-> <<>>, user_entries |-> <<>>, incident |-> None]

Failed(self, result) == [self |-> self, result |-> result, writes |-> 0] @@ NoEdit

\* edit_incident: the store after the request, the outcome, the number of
\* store writes, and what the handler worked out on the way.
edit_incident(self, number, edits_json, order, avatarId, now) ==
    LET read == read_incident_with_number(self, number, now) IN
    IF read.status # "ok" THEN Failed(self, read)
    ELSE
    LET decoded == from_json(edits_json, number, FALSE, now) IN
    IF decoded.status # "ok" THEN [Failed(self, decoded) EXCEPT !.stored = Some(read.value)]
    ELSE
    LET edits == decoded.value
        acc0  == [incident |-> read.value, user_entries |-> <<>>, system_messages |-> <<>>,
                  state_changes |-> <<>>, error |-> None]
        acc   == report_state(edit_keys(acc0, edits, order, avatarId, now))
        done  == [stored |-> Some(read.value), edits |-> Some(edits),
                  state_changes |-> acc.state_changes, system_messages |-> acc.system_messages,
                  user_entries |-> acc.user_entries, incident |-> None]
    IN
    IF acc.error # None THEN [self |-> self, result |-> Raise(Val(acc.error)), writes |-> 0] @@ done
    ELSE LET incident == add_entries(acc, avatarId, now)
             out      == write_incident(self, incident)
         IN [self |-> out.self, result |-> out.result, writes |-> out.writes]
            @@ [done EXCEPT !.incident = Some(incident)]

(***************************************************************************)
(* ims/dms.py: the Duty Management System, the source of the roster.  An   *)
(* attribute the object does not have is None; an attribute that holds     *)
(* Python's None is Some(None).                                            *)
(***************************************************************************)
rangers_cache_interval == 60 * 60 * 1

\* adbapi.ConnectionPool(dbapiName, **connkw)
ConnectionPool(dbapiName, host, database, user, password) ==
    [dbapiName |-> dbapiName, host |-> host, database |-> database, user |-> user, password |-> password]

\* DutyManagementSystem.__init__: the four arguments and _rangers_updated.
\* rangers_updated (no underscore), _dbpool and _rangers are not set.
DutyManagementSystem(host, database, username, password) ==
    [host |-> host, database |-> database, username |-> username, password |-> password,
     _rangers_updated |-> 0, rangers_updated |-> None, _dbpool |-> None, _rangers |-> None]

dbpool_without_password(self) ==
    LET made == IF self._dbpool = None
                THEN [self EXCEPT !._dbpool =
                        Some(Some(ConnectionPool("mysql.connector", self.host, self.database, self.username, "")))]
                ELSE self
    IN Out(made, Return(Val(made._dbpool)))

\* The dbpool property: the pool is created when the object has no _dbpool
\* attribute; what the attribute holds is returned, a pool or None.
dbpool(self) ==
    LET made == IF self._dbpool = None
                THEN [self EXCEPT !._dbpool =
                        Some(Some(ConnectionPool("mysql.connector", self.host, self.database, self.username, self.password)))]
                ELSE self
    IN Out(made, Return(Val(made._dbpool)))

fullName(first, middle, last) ==
    IF middle # "" THEN <<first, " ", middle, ". ", last>> ELSE <<first, " ", last>>

Row(callsign, first_name, mi, last_name, status) ==
    [callsign |-> callsign, first_name |-> first_name, mi |-> mi, last_name |-> last_name, status |-> status]

RangersOf(results) ==
    [k \in DOMAIN results |->
        Ranger(results[k].callsign,
               Some(fullName(results[k].first_name, results[k].mi, results[k].last_name)),
               Some(results[k].status))]

\* rangers() at time now; the query answers with rows (Some) or fails (None)
\* and ends at time then.  The first statement reads self.rangers_updated,
\* which only this method assigns, after that read: on an object that has no
\* such attribute the read raises AttributeError.  Any exception in the try
\* block, a query on a None pool included, takes the except branch.
rangers(self, now, answer, then) ==
    IF self.rangers_updated = None
    THEN Out(self, Raise("AttributeError"))
    ELSE IF now - Val(self.rangers_updated) > rangers_cache_interval
    THEN LET marked == [self EXCEPT !.rangers_updated = Some(now)]
             pool   == dbpool(marked)
         IN IF pool.result.value = None \/ answer = None
            THEN Out([pool.self EXCEPT !.rangers_updated = Some(0), !._dbpool = Some(None)],
                     Raise("DatabaseError"))
            ELSE Out([pool.self EXCEPT !._rangers = Some(RangersOf(Val(answer))),
                                       !.rangers_updated = Some(then)],
                     Return(RangersOf(Val(answer))))
    ELSE IF self._rangers = None
    THEN Out(self, Raise("AttributeError"))
    ELSE Out(self, Return(Val(self._rangers)))

\* A constructed object, the arguments it was given and whether a rangers()
\* call on it has raised.
Constructed(host, database, username, password) ==
    [self   |-> DutyManagementSystem(host, database, username, password),
     given  |-> [host |-> host, database |-> database, username |-> username, password |-> password],
     raised |-> FALSE]

\* The roster source of a server whose store is under study.
ConfiguredDms == Constructed("h1", "d1", "u1", "p1")

(***************************************************************************)
(* Inputs of the store operations                                          *)
(***************************************************************************)
Clock == {DateTime(3, 1)}

NoLocation == Location(None, None)

Plain(n) == Incident(n, Some(<<>>), Some(NoLocation), Some(<<>>), None, Some(<<>>), None, None, None, None, None)

Variants == {"plain", "summary", "rangers", "no_location", "priority_6"}

Variant(n, v) ==
    CASE v = "plain" -> Plain(n)
      [] v = "summary" -> [Plain(n) EXCEPT !.summary = Some("s")]
      [] v = "rangers" -> [Plain(n) EXCEPT !.rangers = Some(<<Ranger("a", Some("A"), Some("active"))>>)]
      [] v = "no_location" -> [Plain(n) EXCEPT !.location = None]
      [] v = "priority_6" -> [Plain(n) EXCEPT !.priority = Some(6)]

WriteInputs == {Variant(n, v) : n \in Numbers, v \in Variants}

\* The directories a store may be opened on: every file was written by a
\* store, so it holds the encoding of an incident.
InitialDirs == UNION {[S -> {0}] : S \in SUBSET Numbers}

DirOf(f) == [n \in DOMAIN f |-> Some(to_json_text(Plain(n)).value)]

(***************************************************************************)
(* The store's operations as actions.  ret is what the last call returned  *)
(* or raised; returned, quiet, present and written are history: the        *)
(* numbers handed out, whether only next_incident_number has been called,  *)
(* the numbers of the records in the directory, and the incident last      *)
(* written under each number.                                              *)
(***************************************************************************)
Call(op, arg, result) == [op |-> op, arg |-> arg, status |-> result.status, value |-> result.value]

\* No call is in progress.
Idle == Call("idle", None, Return(None))

InitStore ==
    /\ \E f \in InitialDirs : storage = NewStorage(DirOf(f))
    /\ ret = Idle
    /\ returned = <<>>
    /\ quiet = TRUE
    /\ present = DOMAIN storage.path
    /\ written = <<>>
    /\ dms = ConfiguredDms

WriteIncident ==
    /\ ret.op = "idle"
    /\ \E incident \in WriteInputs :
        \E out \in {write_incident(storage, incident)} :
        /\ storage' = out.self
        /\ ret' = Call("write_incident", incident, out.result)
        /\ quiet' = FALSE
        /\ present' = IF out.result.status = "ok" THEN present \cup {incident.number} ELSE present
        /\ written' = IF out.result.status = "ok" THEN (incident.number :> incident) @@ written ELSE written
        /\ UNCHANGED <<returned, dms>>

NextIncidentNumber ==
    /\ ret.op = "idle"
    /\ \E out \in {next_incident_number(storage)} :
        /\ out.result.value <= MaxNumber
        /\ storage' = out.self
        /\ ret' = Call("next_incident_number", None, out.result)
        /\ returned' = Append(returned, out.result.value)
        /\ UNCHANGED <<quiet, present, written, dms>>

EtagForIncident ==
    /\ ret.op = "idle"
    /\ \E number \in Numbers :
        \E out \in {etag_for_incident_with_number(storage, IntKey(number))} :
        /\ storage' = out.self
        /\ ret' = Call("etag_for_incident_with_number", number, out.result)
        /\ quiet' = FALSE
        /\ UNCHANGED <<returned, present, written, dms>>

ReadIncident ==
    \E number \in Numbers, utcnow \in Clock :
        /\ ret.op = "idle"
        /\ ret' = Call("read_incident_with_number", number, read_incident_with_number(storage, number, utcnow))
        /\ quiet' = FALSE
        /\ UNCHANGED <<storage, returned, present, written, dms>>

ReadIncidentRaw ==
    \E number \in Numbers :
        /\ ret.op = "idle"
        /\ ret' = Call("read_incident_with_number_raw", number, read_incident_with_number_raw(storage, IntKey(number)))
        /\ quiet' = FALSE
        /\ UNCHANGED <<storage, returned, present, written, dms>>

ListIncidents ==
    /\ ret.op = "idle"
    /\ \E out \in {list_incidents(storage)} :
        /\ storage' = out.self
        /\ ret' = Call("list_incidents", None, out.result)
        /\ quiet' = FALSE
        /\ UNCHANGED <<returned, present, written, dms>>

\* The call returns: one call is made at a time.
Respond ==
    /\ ret.op # "idle"
    /\ ret' = Idle
    /\ UNCHANGED <<storage, returned, quiet, present, written, dms>>

NextStore ==
    \/ WriteIncident
    \/ NextIncidentNumber
    \/ EtagForIncident
    \/ ReadIncident
    \/ ReadIncidentRaw
    \/ ListIncidents
    \/ Respond

SpecStore == InitStore /\ [][NextStore]_vars

(***************************************************************************)
(* The wire format: an incident that validates is encoded with             *)
(* to_json_text and the text is decoded with from_json under the           *)
(* incident's number.                                                      *)
(***************************************************************************)
Stored(s) == DateTime(s, 0)

CodecEntries ==
    {None, Some(<<>>),
     Some(<<ReportEntry(Some("u"), Some(UserText("t")), Some(Stored(1)), FALSE, Stored(1))>>),
     Some(<<ReportEntry(None, Some(UserText("t")), Some(DateTime(1, 1)), TRUE, Stored(1))>>)}

CodecIncidents ==
    {i \in {Incident(n, r, l, t, s, e, c, None, None, None, p) :
                n \in Numbers,
                r \in {Some(<<>>), Some(<<Ranger("a", Some("A"), Some("active"))>>)},
                l \in {None, Some(NoLocation), Some(Location(Some("L"), Some("addr")))},
                t \in {None, Some(<<>>), Some(<<Junk>>)},
                s \in {None, Some("s")},
                e \in CodecEntries,
                c \in {None, Some(Stored(1)), Some(DateTime(1, 1))},
                p \in {Some(1), None}} : validate(i)}

InitCodec ==
    /\ storage = NewStorage(<<>>)
    /\ \E i \in CodecIncidents : ret = Call("Incident", i, Return(None))
    /\ returned = <<>>
    /\ quiet = TRUE
    /\ present = {}
    /\ written = <<>>
    /\ dms = ConfiguredDms

ToJsonText ==
    /\ ret.op = "Incident"
    /\ ret' = Call("to_json_text", ret.arg, to_json_text(ret.arg))
    /\ UNCHANGED <<storage, returned, quiet, present, written, dms>>

FromJson ==
    /\ ret.op = "to_json_text"
    /\ ret.status = "ok"
    /\ \E do_validate \in BOOLEAN, utcnow \in Clock :
          ret' = Call("from_json", ret.arg, from_json(ret.value, ret.arg.number, do_validate, utcnow))
    /\ UNCHANGED <<storage, returned, quiet, present, written, dms>>

NextCodec == ToJsonText \/ FromJson

SpecCodec == InitCodec /\ [][NextCodec]_vars

(***************************************************************************)
(* Edit requests.  The directory holds one record, a stored incident with  *)
(* MaxEntries - 1 report entries; a record that has reached MaxEntries     *)
(* entries is not edited further.  A payload is a JSON object that carries *)
(* any of the timeline keys (null or a time) with or without an            *)
(* incident_types list adding Junk, or one other key, or report entries    *)
(* beside one other key.                                                   *)
(***************************************************************************)
EditNumber == MaxNumber

OtherNumber == MaxNumber - 1

Avatar == "alice"

StoredTimes == {None, Some(Stored(1))}

StoredEntry == ReportEntry(Some("u"), Some(UserText("t0")), Some(Stored(1)), FALSE, Stored(1))

StoredEntries == Some([k \in 1..(MaxEntries - 1) |-> StoredEntry])

StoredIncident(c, d, o, x, types, priority) ==
    Incident(EditNumber, Some(<<>>), Some(NoLocation), Some(types), None, StoredEntries, c, d, o, x, priority)

StoredIncidents ==
    {StoredIncident(c, d, o, x, <<>>, None) : c \in StoredTimes, d \in StoredTimes, o \in StoredTimes, x \in StoredTimes}
    \cup {StoredIncident(None, None, None, x, <<Junk>>, Some(3)) : x \in StoredTimes}

TimelineKeys == SeqToSet(states)

\* created is submitted as stored or changed, so that an edit can un-set
\* the other fields without changing created.
TimelineValues(key) == IF key = "created" THEN {None, Some(1), Some(2)} ELSE {None, Some(2)}

TimelineParts ==
    UNION {{t \in [S -> {None, Some(1), Some(2)}] : \A key \in S : t[key] \in TimelineValues(key)} : S \in SUBSET TimelineKeys}

TypesParts == {<<>>, [incident_types |-> Some(<<Junk>>)]}

Entry1 == [text |-> Some(UserText("t1"))]

Entry2 == [author |-> Some("bob"), text |-> Some(UserText("t2")), created |-> Some(2), system_entry |-> Some(TRUE)]

EntryNoText == [text |-> None]

OneKey ==
    {[priority |-> None], [priority |-> Some(3)], [priority |-> Some(6)],
     [summary |-> None], [summary |-> Some("s")],
     [location_name |-> Some("L")], [location_name |-> Some("")], [location_address |-> Some("addr")],
     [ranger_handles |-> None], [ranger_handles |-> Some(<<>>)],
     [ranger_handles |-> Some(<<"a">>)], [ranger_handles |-> Some(<<"">>)],
     [number |-> None], [number |-> Some(EditNumber)], [number |-> Some(OtherNumber)],
     [incident_types |-> None], [incident_types |-> Some(<<>>)], [incident_types |-> Some(<<Admin, Junk>>)]}

EntriesParts ==
    {[report_entries |-> Some(<<>>)], [report_entries |-> Some(<<Entry1>>)],
     [report_entries |-> Some(<<Entry1, Entry2>>)], [report_entries |-> Some(<<EntryNoText>>)]}

EditPayloads ==
    {t @@ y : t \in TimelineParts, y \in TypesParts}
    \cup OneKey
    \cup {[report_entries |-> None]}
    \cup EntriesParts
    \cup {e @@ k : e \in EntriesParts,
                   k \in {[priority |-> Some(3)], [priority |-> Some(6)], [summary |-> Some("s")],
                          [incident_types |-> Some(<<Junk>>)], [number |-> Some(OtherNumber)]}}

RECURSIVE Perms(_)
Perms(S) == IF S = {} THEN {<<>>} ELSE UNION {{<<x>> \o p : p \in Perms(S \ {x})} : x \in S}

KeyList == <<"number", "priority", "summary", "location_name", "location_address", "ranger_handles", "report_entries", "created", "dispatched", "on_scene", "closed", "incident_types">>

InKeyListOrder(S) == SelectSeq(KeyList, LAMBDA k : k \in S)

\* The orders in which the keys of a payload are iterated: every order for
\* a payload of at most MaxPermuted keys; for a larger one, every choice of
\* the keys that come before incident_types (the one key whose branch reads
\* what the branches of other keys assign), the rest in a fixed order.
KeyOrders(p) ==
    LET keys   == DOMAIN p
        others == keys \ {"incident_types"}
    IN
    IF Cardinality(keys) <= MaxPermuted THEN Perms(keys)
    ELSE IF "incident_types" \in keys
    THEN {InKeyListOrder(B) \o <<"incident_types">> \o InKeyListOrder(others \ B) : B \in SUBSET others}
    ELSE {InKeyListOrder(keys)}

\* A payload with an order in which its keys are iterated.
EditInputs == UNION {{<<p, order>> : order \in KeyOrders(p)} : p \in EditPayloads}

EntriesStored(self, number) ==
    IF number \in DOMAIN self.path /\ self.path[number] # None
    THEN Len(Val(Val(self.path[number])["report_entries"])) ELSE 0

\* get_incident: the etag is looked up under the number as the URL gives it.
get_incident(self, number, utcnow) ==
    LET etag == etag_for_incident_with_number(self, StrKey(number)) IN
    IF etag.result.status # "ok" THEN etag
    ELSE LET read == read_incident_with_number(etag.self, number, utcnow) IN
         IF read.status # "ok" THEN Out(etag.self, read)
         ELSE LET text == to_json_text(read.value) IN
              IF text.status # "ok" THEN Out(etag.self, text)
              ELSE Out(etag.self, Return([etag |-> etag.result.value, body |-> text.value]))

InitEdit ==
    /\ \E i \in StoredIncidents :
          storage = NewStorage(EditNumber :> Some(to_json_text(i).value))
    /\ ret = Idle
    /\ returned = <<>>
    /\ quiet = TRUE
    /\ present = DOMAIN storage.path
    /\ written = <<>>
    /\ dms = ConfiguredDms

\* A request is handled when no response is pending.
EditIncident ==
    \E number \in DOMAIN storage.path :
      /\ ret.op = "idle"
      /\ EntriesStored(storage, number) < MaxEntries
      /\ \E input \in EditInputs, now \in Clock :
        \E out \in {edit_incident(storage, number, input[1], input[2], Avatar, now)} :
        /\ storage' = out.self
        /\ ret' = [op |-> "edit_incident",
                   arg |-> [number |-> number, edits_json |-> input[1], order |-> input[2], now |-> now],
                   status |-> out.result.status, value |-> out.result.value,
                   before |-> storage, stored |-> out.stored, edits |-> out.edits,
                   state_changes |-> out.state_changes, system_messages |-> out.system_messages,
                   user_entries |-> out.user_entries, incident |-> out.incident, writes |-> out.writes]
        /\ quiet' = FALSE
        /\ present' = IF out.result.status = "ok" THEN present \cup {number} ELSE present
        /\ written' = IF out.result.status = "ok" THEN (number :> Val(out.incident)) @@ written ELSE written
        /\ UNCHANGED <<returned, dms>>

GetIncident ==
    /\ ret.op = "idle"
    /\ \E number \in Numbers, utcnow \in Clock :
        \E out \in {get_incident(storage, number, utcnow)} :
        /\ storage' = out.self
        /\ ret' = Call("get_incident", number, out.result)
        /\ quiet' = FALSE
        /\ UNCHANGED <<returned, present, written, dms>>

NextEdit == EditIncident \/ GetIncident \/ Respond

SpecEdit == InitEdit /\ [][NextEdit]_vars

(***************************************************************************)
(* Claims about the store                                                  *)
(***************************************************************************)

\* C1: on a store opened on an empty directory, as long as nothing but
\* next_incident_number has been called, the k-th call returned k: the
\* numbers handed out are 1, 2, ..., N.
C1_FreshNumbers ==
    (quiet /\ present = {}) => \A k \in DOMAIN returned : returned[k] = k

C1_Witness == quiet /\ present = {} /\ Len(returned) >= 2

\* C2: the numbers handed out by next_incident_number are strictly
\* increasing, and the number just handed out is greater than the number of
\* every record that was in the directory at provisioning or has been
\* written through the store.
C2_NumbersIncrease ==
    /\ \A j, k \in DOMAIN returned : j < k => returned[j] < returned[k]
    /\ ret.op = "next_incident_number" => \A n \in present : n < ret.value

C2_Witness ==
    /\ ret.op = "next_incident_number"
    /\ Len(returned) >= 2
    /\ DOMAIN written # {}

\* C3: reading a number back after an incident was written under it
\* succeeds and returns an incident equal to the one written.
C3_WriteThenRead ==
    (ret.op = "read_incident_with_number" /\ ret.arg \in DOMAIN written) =>
        (ret.status = "ok" /\ ret.value = written[ret.arg])

\* C4: every cached etag, and every etag returned, is the fingerprint of the
\* bytes now persisted under its number.
C4_EtagIsFingerprint ==
    /\ \A key \in DOMAIN storage.incident_etags :
          /\ KeyNumber(key) \in DOMAIN storage.path
          /\ storage.incident_etags[key] = etag_hash(storage.path[KeyNumber(key)])
    /\ (ret.op = "etag_for_incident_with_number" /\ ret.status = "ok") =>
          ret.value = etag_hash(storage.path[ret.arg])

(***************************************************************************)
(* Claims about the wire format                                            *)
(***************************************************************************)

\* C5: an incident that validates is encoded without error, and decoding
\* the text under the incident's number yields an incident equal to it in
\* every field; in particular an empty ranger list comes back as an empty
\* list, not as None.
C5_RoundTrip ==
    /\ ret.op = "to_json_text" => ret.status = "ok"
    /\ ret.op = "from_json" => (ret.status = "ok" /\ ret.value = ret.arg)

(***************************************************************************)
(* Claims about edit_incident, checked under SpecEdit                      *)
(***************************************************************************)
Edited == ret.op = "edit_incident"

\* The incident decoded from the bytes persisted for a number.
Persisted(self, number) == from_json(Val(self.path[number]), number, FALSE, DateTime(0, 0)).value

TimelineOf(root) == DOMAIN root \cap SeqToSet(states)

StateLines(text) == SelectSeq(text, LAMBDA l : l.kind = "State changed to")

\* The entries persisted after those that were stored before the edit.
Appended == SubSeq(Val(Persisted(storage, ret.arg.number).report_entries), Len(Val(Val(ret.stored).report_entries)) + 1, Len(Val(Persisted(storage, ret.arg.number).report_entries)))

\* A submitted entry as it is persisted for the acting user.
Submitted(entry, now) ==
    [author |-> Some(Avatar), text |-> Get(entry, "text"),
     created |-> IF Get(entry, "created") = None THEN Some(DateTime(now.sec, 0)) ELSE Some(DateTime(Val(entry["created"]), 0)),
     system_entry |-> Get(entry, "system_entry") = Some(TRUE)]

\* A payload that is decodable apart from its number.
WellFormed(root) ==
    /\ Get(root, "ranger_handles") # None => \A k \in DOMAIN Val(root["ranger_handles"]) : Val(root["ranger_handles"])[k] # ""
    /\ "report_entries" \in DOMAIN root => root["report_entries"] # None

\* C6: decoding a payload for the expected number n fails with
\* InvalidDataError when the payload carries a non-null number other than
\* n, and otherwise yields an incident numbered n; every record persisted
\* under n, and so the one edit_incident writes for URL number n, has
\* number n.
C6_NumberIsExpected ==
    /\ \A n \in DOMAIN storage.path : storage.path[n] # None => Val(storage.path[n])["number"] = Some(n)
    /\ Edited /\ ret.stored # None =>
          LET n == ret.arg.number
              p == Get(ret.arg.edits_json, "number")
          IN IF p # None /\ Val(p) # n
             THEN ret.status = "InvalidDataError" /\ ret.edits = None /\ ret.writes = 0
             ELSE /\ WellFormed(ret.arg.edits_json) => ret.edits # None
                  /\ ret.edits # None => Val(ret.edits).number = n
                  /\ ret.status = "ok" => Val(ret.incident).number = n

C6_Witness ==
    /\ Edited /\ ret.status = "InvalidDataError"
    /\ Get(ret.arg.edits_json, "number") = Some(OtherNumber)
    /\ DOMAIN ret.arg.edits_json # {"number"}

\* The payload sets a priority outside 1..5 or submits an entry without text.
FailsValidation(root) ==
    \/ Get(root, "priority") # None /\ (Val(root["priority"]) < MinPriority \/ Val(root["priority"]) > MaxPriority)
    \/ /\ Get(root, "report_entries") # None
       /\ \E k \in DOMAIN Val(root["report_entries"]) : Get(Val(root["report_entries"])[k], "text") = None

\* C7: an edit whose reconciled incident fails validation raises to the
\* caller with no store write, leaving the persisted bytes, the cached
\* etags, the known numbers and the maximum number as they were; an edit
\* that succeeds performs exactly one store write.
C7_EditIsAtomic ==
    Edited =>
        /\ (FailsValidation(ret.arg.edits_json) /\ ret.edits # None) => ret.status = "InvalidDataError"
        /\ ret.status # "ok" => (ret.writes = 0 /\ storage = ret.before)
        /\ ret.status = "ok" => ret.writes = 1

C7_Witness ==
    /\ Edited /\ ret.status = "InvalidDataError"
    /\ ret.incident # None
    /\ StrKey(ret.arg.number) \in DOMAIN storage.incident_etags
    /\ storage.path[ret.arg.number] = ret.before.path[ret.arg.number]

\* The stored incident has no timeline field set, and the payload has no
\* timeline key and adds the Junk type.
C8_Case ==
    /\ Edited /\ ret.status = "ok"
    /\ \A key \in SeqToSet(states) : Val(ret.stored)[key] = None
    /\ TimelineOf(ret.arg.edits_json) = {}
    /\ Get(ret.arg.edits_json, "incident_types") # None
    /\ Junk \in SeqToSet(Val(ret.arg.edits_json["incident_types"]))
    /\ Junk \notin OptSet(Val(ret.stored).incident_types)

\* C8: adding the Junk type to a stored incident with no timeline field
\* set, in a payload with no timeline key, persists all four timeline
\* fields non-null and equal, and appends one system entry that tells the
\* type addition and has a single state line, naming closed; whatever else
\* is appended are the entries the user submitted.
C8_JunkCloses ==
    C8_Case =>
        LET after == Persisted(storage, ret.arg.number)
            user  == IF Get(ret.arg.edits_json, "report_entries") = None THEN <<>> ELSE Val(ret.arg.edits_json["report_entries"])
        IN
        /\ after.created # None
        /\ \A key \in SeqToSet(states) : after[key] = after.created
        /\ Len(Appended) = 1 + Len(user)
        /\ Appended[1].system_entry = TRUE
        /\ Appended[1].author = Some(Avatar)
        /\ \E l \in SeqToSet(Val(Appended[1].text)) : l.kind = "Added to" /\ l.what = "incident types" /\ Junk \in l.items
        /\ StateLines(Val(Appended[1].text)) = <<Line("State changed to", "closed", {})>>
        /\ \A k \in DOMAIN user : Appended[k + 1] = Submitted(user[k], ret.arg.now)

C8_Witness == C8_Case /\ Len(Appended) = 1

\* The stored incident has dispatched set, and the payload carries created
\* with a value, dispatched null and no other timeline key.
C9_Case ==
    /\ Edited /\ ret.status = "ok"
    /\ Val(ret.stored).dispatched # None
    /\ TimelineOf(ret.arg.edits_json) = {"created", "dispatched"}
    /\ ret.arg.edits_json["created"] # None
    /\ ret.arg.edits_json["dispatched"] = None

C9_ReportsNew ==
    /\ Persisted(storage, ret.arg.number).dispatched = None
    /\ Len(Appended) >= 1
    /\ Appended[1].system_entry = TRUE
    /\ StateLines(Val(Appended[1].text)) = <<Line("State changed to", "new", {})>>

\* The staged state changes are all un-sets, and there is one.
C9_OnlyUnsets ==
    /\ Edited /\ ret.status = "ok"
    /\ ret.state_changes # <<>>
    /\ \A k \in DOMAIN ret.state_changes : ret.state_changes[k][2] = None

\* The single state line names the state before the lowest un-set field.
C9_ReportsPrevious ==
    LET unset  == {ret.state_changes[k][1] : k \in DOMAIN ret.state_changes}
        lowest == CHOOSE i \in 1..Len(states) : states[i] \in unset /\ \A j \in 1..(i - 1) : states[j] \notin unset
    IN
    /\ lowest > 1
    /\ Len(Appended) >= 1
    /\ Appended[1].system_entry = TRUE
    /\ StateLines(Val(Appended[1].text)) = <<Line("State changed to", describe(states[lowest - 1]), {})>>

C9_AddsJunk == JunkAdded(Val(ret.stored).incident_types, Get(ret.arg.edits_json, "incident_types"))

\* C9 as stated: with dispatched stored, a payload carrying created with a
\* value, dispatched null and no other timeline key un-sets dispatched and
\* appends a system entry whose state line reads "State changed to: new";
\* when only un-sets are staged, the one state line names the state before
\* the lowest un-set field.
C9_UnsetReportsNew ==
    /\ C9_Case => C9_ReportsNew
    /\ C9_OnlyUnsets => C9_ReportsPrevious

\* C9, amended: the same, for a payload that does not add the Junk type.
C9_UnsetReportsNewUnlessJunk ==
    /\ (C9_Case /\ ~C9_AddsJunk) => C9_ReportsNew
    /\ C9_OnlyUnsets => C9_ReportsPrevious

C9_Witness == C9_Case /\ ~C9_AddsJunk /\ C9_OnlyUnsets

\* C10: an edit whose payload has the key report_entries alone leaves
\* every other field of the persisted record as stored, adds no system
\* entry, and appends the submitted entries in submitted order after the
\* stored ones, each with the acting user as author.
C10_OnlyEntries ==
    (Edited /\ ret.status = "ok" /\ DOMAIN ret.arg.edits_json = {"report_entries"}) =>
        LET after  == Persisted(storage, ret.arg.number)
            before == Val(ret.stored)
            user   == Val(ret.arg.edits_json["report_entries"])
        IN
        /\ \A f \in {"number", "priority", "summary", "location", "rangers", "incident_types", "created", "dispatched", "on_scene", "closed"} : after[f] = before[f]
        /\ SubSeq(Val(after.report_entries), 1, Len(Val(before.report_entries))) = Val(before.report_entries)
        /\ Appended = [k \in DOMAIN user |-> Submitted(user[k], ret.arg.now)]

C10_Witness ==
    /\ Edited /\ ret.status = "ok" /\ DOMAIN ret.arg.edits_json = {"report_entries"}
    /\ Len(Appended) = 2
    /\ Appended[2].author = Some(Avatar)

(***************************************************************************)
(* ims/store.py: search_incidents.  A string is searched as the sequence   *)
(* of its characters; Chars gives the characters of the strings that occur *)
(* in the searched records and in the terms.                                *)
(***************************************************************************)
Chars(s) ==
    CASE s = "Lost keys" -> <<"L", "o", "s", "t", " ", "k", "e", "y", "s">>
      [] s = "junk mail" -> <<"j", "u", "n", "k", " ", "m", "a", "i", "l">>
      [] s = "Junk" -> <<"J", "u", "n", "k">>
      [] s = "Camp" -> <<"C", "a", "m", "p">>
      [] s = "Tool" -> <<"T", "o", "o", "l">>
      [] s = "Added to" -> <<"A", "d", "d", "e", "d", " ", "t", "o">>
      [] s = "incident types" -> <<"i", "n", "c", "i", "d", "e", "n", "t", " ", "t", "y", "p", "e", "s">>
      [] s = "State changed to" -> <<"S", "t", "a", "t", "e", " ", "c", "h", "a", "n", "g", "e", "d", " ", "t", "o">>
      [] s = "closed" -> <<"c", "l", "o", "s", "e", "d">>
      [] s = "Changed" -> <<"C", "h", "a", "n", "g", "e", "d">>
      [] s = "Removed from" -> <<"R", "e", "m", "o", "v", "e", "d", " ", "f", "r", "o", "m">>
      [] s = "junk" -> <<"j", "u", "n", "k">>
      [] s = "KEYS" -> <<"K", "E", "Y", "S">>
      [] s = "camp" -> <<"c", "a", "m", "p">>
      [] s = "x" -> <<"x">>
      [] s = "tool" -> <<"t", "o", "o", "l">>
      [] s = "keys" -> <<"k", "e", "y", "s">>

\* unicode.lower, character by character.
LowerChar(c) ==
    CASE c = "A" -> "a"
      [] c = "B" -> "b"
      [] c = "C" -> "c"
      [] c = "D" -> "d"
      [] c = "E" -> "e"
      [] c = "F" -> "f"
      [] c = "G" -> "g"
      [] c = "H" -> "h"
      [] c = "I" -> "i"
      [] c = "J" -> "j"
      [] c = "K" -> "k"
      [] c = "L" -> "l"
      [] c = "M" -> "m"
      [] c = "N" -> "n"
      [] c = "O" -> "o"
      [] c = "P" -> "p"
      [] c = "Q" -> "q"
      [] c = "R" -> "r"
      [] c = "S" -> "s"
      [] c = "T" -> "t"
      [] c = "U" -> "u"
      [] c = "V" -> "v"
      [] c = "W" -> "w"
      [] c = "X" -> "x"
      [] c = "Y" -> "y"
      [] c = "Z" -> "z"
      [] OTHER -> c

lower(chars) == [k \in DOMAIN chars |-> LowerChar(chars[k])]

\* term in string
Contains(term, string) ==
    \E t \in {term}, s \in {string} :
        \E k \in 1..(Len(s) - Len(t) + 1) : SubSeq(s, k, k + Len(t) - 1) = t

RECURSIVE Join(_, _)
Join(parts, sep) ==
    IF parts = <<>> THEN <<>>
    ELSE IF Len(parts) = 1 THEN parts[1]
    ELSE parts[1] \o sep \o Join(Tail(parts), sep)

RECURSIVE SetToSeq(_)
SetToSeq(S) == IF S = {} THEN <<>> ELSE LET x == CHOOSE x \in S : TRUE IN <<x>> \o SetToSeq(S \ {x})

\* The characters of one line of a report entry, as edit_incident formats it.
LineChars(l) ==
    IF l.kind = "text" THEN Chars(l.what)
    ELSE IF l.kind = "State changed to" THEN Chars(l.kind) \o <<":", " ">> \o Chars(l.what)
    ELSE IF l.kind = "Changed"
    THEN Chars(l.kind) \o <<" ">> \o Chars(l.what) \o <<" ", "t", "o", ":", " ">> \o Join([k \in 1..Cardinality(l.items) |-> Chars(SetToSeq(l.items)[k])], <<",", " ">>)
    ELSE Chars(l.kind) \o <<" ">> \o Chars(l.what) \o <<":", " ">> \o Join([k \in 1..Cardinality(l.items) |-> Chars(SetToSeq(l.items)[k])], <<",", " ">>)

\* The characters of a text: its lines joined by newlines.
TextChars(text) == Join([k \in DOMAIN text |-> LineChars(text[k])], <<"\n">>)

Earlier(a, b) == a.sec < b.sec \/ (a.sec = b.sec /\ a.usec < b.usec)

\* Every time taken to be within the bounds.
in_time_bounds_unbounded(when, since, until) == TRUE

in_time_bounds(when, since, until) ==
    /\ ~(since # None /\ Earlier(when, Val(since)))
    /\ ~(until # None /\ Earlier(Val(until), when))

Hit(term, string) == string # None /\ Contains(lower(Chars(term)), lower(Val(string)))

\* The loop over search_strings_from_incident for one term: "match",
\* "miss", or the error of iterating a list that is None.
match_term(term, incident) ==
    IF \E string \in {incident.summary, Val(incident.location).name, Val(incident.location).address} :
          Hit(term, IF string = None THEN None ELSE Some(Chars(Val(string))))
    THEN "match"
    ELSE IF incident.incident_types = None THEN "TypeError"
    ELSE IF \E k \in DOMAIN Val(incident.incident_types) : Hit(term, Some(Chars(Val(incident.incident_types)[k])))
    THEN "match"
    ELSE IF \E k \in DOMAIN Val(incident.rangers) : Hit(term, Some(Chars(Val(incident.rangers)[k].handle)))
    THEN "match"
    ELSE IF \E k \in DOMAIN Val(incident.report_entries) :
               Hit(term, IF Val(incident.report_entries)[k].text = None THEN None
                         ELSE Some(TextChars(Val(Val(incident.report_entries)[k].text))))
    THEN "match"
    ELSE "miss"

\* Closed incidents shown.
HideClosedNever(incident, show_closed) == FALSE

\* "Filter out closed incidents if appropriate".
HideClosed(incident, show_closed) == ~show_closed /\ incident.closed # None

\* The filters of search_incidents on one incident: "yield", "skip" or an error.
search_filter(incident, terms, show_closed, since, until) ==
    IF HideClosed(incident, show_closed) THEN "skip"
    ELSE IF (since # None \/ until # None)
            /\ ~\E k \in DOMAIN Val(incident.report_entries) :
                   in_time_bounds(Val(Val(incident.report_entries)[k].created), since, until)
    THEN "skip"
    ELSE LET matched == [k \in DOMAIN terms |-> match_term(terms[k], incident)] IN
         IF \A k \in DOMAIN terms : matched[k] = "match" THEN "yield"
         ELSE LET k == CHOOSE k \in DOMAIN terms : matched[k] # "match" /\ \A j \in 1..(k - 1) : matched[j] = "match" IN
              IF matched[k] = "miss" THEN "skip" ELSE matched[k]

\* The loop of search_incidents over the pairs of list_incidents, in the
\* order in which the known numbers are iterated.
RECURSIVE search_from(_, _, _, _, _, _, _, _)
search_from(self, yielded, order, terms, show_closed, since, until, utcnow) ==
    IF order = <<>> THEN [self |-> self, result |-> Return(yielded), yielded |-> yielded]
    ELSE
    LET number == Head(order)
        etag   == etag_for_incident_with_number(self, IntKey(number))
    IN
    IF etag.result.status # "ok" THEN [self |-> etag.self, result |-> etag.result, yielded |-> yielded]
    ELSE
    LET read == read_incident_with_number(etag.self, number, utcnow) IN
    IF read.status # "ok" THEN [self |-> etag.self, result |-> read, yielded |-> yielded]
    ELSE
    LET verdict == search_filter(read.value, terms, show_closed, since, until) IN
    IF verdict \notin {"yield", "skip"} THEN [self |-> etag.self, result |-> Raise(verdict), yielded |-> yielded]
    ELSE search_from(etag.self, IF verdict = "yield" THEN yielded \cup {<<number, etag.result.value>>} ELSE yielded,
                     Tail(order), terms, show_closed, since, until, utcnow)

\* The numbers list_incidents iterates: read from the directory on the first call.
KnownNumbers(self) == IF self.incidents = None THEN DOMAIN self.path ELSE Val(self.incidents)

\* search_incidents, run to exhaustion.
search_incidents(self, terms, show_closed, since, until, order, utcnow) ==
    search_from([self EXCEPT !.incidents = Some(KnownNumbers(self))], {}, order, terms, show_closed, since, until, utcnow)

(***************************************************************************)
(* Searches.  The directory holds records written by a store.              *)
(***************************************************************************)
JunkEntry == ReportEntry(Some("alice"), Some(<<Line("Added to", "incident types", {Junk}), Line("State changed to", "closed", {})>>), Some(Stored(3)), TRUE, Stored(3))

MailEntry == ReportEntry(Some("bob"), Some(UserText("junk mail")), Some(Stored(2)), FALSE, Stored(2))

SearchKinds == {"open", "open_mail", "closed_junk", "closed_keys", "ranger"}

SearchRecord(n, kind) ==
    CASE kind = "open" -> [Plain(n) EXCEPT !.summary = Some("Lost keys")]
      [] kind = "open_mail" -> [Plain(n) EXCEPT !.report_entries = Some(<<MailEntry>>), !.location = Some(Location(Some("Camp"), None))]
      [] kind = "closed_junk" -> [Plain(n) EXCEPT !.incident_types = Some(<<Junk>>), !.report_entries = Some(<<MailEntry, JunkEntry>>),
                                                  !.created = Some(Stored(3)), !.dispatched = Some(Stored(3)),
                                                  !.on_scene = Some(Stored(3)), !.closed = Some(Stored(3))]
      [] kind = "closed_keys" -> [Plain(n) EXCEPT !.summary = Some("Lost keys"), !.location = Some(Location(Some("Camp"), None)),
                                                  !.closed = Some(Stored(2))]
      [] kind = "ranger" -> [Plain(n) EXCEPT !.rangers = Some(<<Ranger("Tool", Some("T"), Some("active"))>>)]

SearchDirs == UNION {[S -> SearchKinds] : S \in SUBSET Numbers}

SearchTerms == {<<>>, <<"junk">>, <<"KEYS">>, <<"keys", "camp">>, <<"x">>, <<"tool">>}

SearchBounds == {<<None, None>>, <<Some(Stored(3)), None>>, <<None, Some(Stored(2))>>, <<Some(Stored(2)), Some(Stored(2))>>}

InitSearch ==
    /\ \E f \in SearchDirs :
          storage = NewStorage([n \in DOMAIN f |-> Some(to_json_text(SearchRecord(n, f[n])).value)])
    /\ ret = Idle
    /\ returned = <<>>
    /\ quiet = TRUE
    /\ present = DOMAIN storage.path
    /\ written = <<>>
    /\ dms = ConfiguredDms

SearchIncidents ==
    /\ ret.op = "idle"
    /\ \E terms \in SearchTerms, show_closed \in BOOLEAN, bounds \in SearchBounds, utcnow \in Clock :
       \E order \in Perms(KnownNumbers(storage)) :
       \E out \in {search_incidents(storage, terms, show_closed, bounds[1], bounds[2], order, utcnow)} :
        /\ storage' = out.self
        /\ ret' = [op |-> "search_incidents",
                   arg |-> [terms |-> terms, show_closed |-> show_closed, since |-> bounds[1], until |-> bounds[2], order |-> order],
                   status |-> out.result.status, value |-> out.yielded]
        /\ quiet' = FALSE
        /\ UNCHANGED <<returned, present, written, dms>>

NextSearch == SearchIncidents \/ ListIncidents \/ Respond

SpecSearch == InitSearch /\ [][NextSearch]_vars

(***************************************************************************)
(* Claims about search_incidents, checked under SpecSearch                 *)
(***************************************************************************)
Searched == ret.op = "search_incidents"

\* The record stored under a number, decoded without validation.
Record(number) == Persisted(storage, number)

Yielded == {pair[1] : pair \in ret.value}

\* C11: a search with show_closed false yields no record whose closed time
\* is set, whatever the terms and time bounds; with show_closed true a
\* closed record that passes the other filters is yielded.
C11_ClosedAreHidden ==
    Searched =>
        /\ ~ret.arg.show_closed => \A n \in Yielded : Record(n).closed = None
        /\ (ret.arg.show_closed /\ ret.status = "ok") =>
              \A n \in DOMAIN storage.path :
                  (Record(n).closed # None /\ search_filter(Record(n), ret.arg.terms, TRUE, ret.arg.since, ret.arg.until) = "yield")
                      => n \in Yielded

C11_Witness ==
    /\ Searched /\ ~ret.arg.show_closed /\ ret.status = "ok"
    /\ ret.arg.terms = <<"junk">>
    /\ Yielded # {}
    /\ \E n \in DOMAIN storage.path : Record(n).closed # None /\ Junk \in OptSet(Record(n).incident_types)

\* The strings of a record that are searched.
SearchedStrings(i) ==
    {Chars(Val(s)) : s \in {s \in {i.summary, Val(i.location).name, Val(i.location).address} : s # None}}
    \cup {Chars(t) : t \in OptSet(i.incident_types)}
    \cup {Chars(r.handle) : r \in OptSet(i.rangers)}
    \cup {TextChars(Val(e.text)) : e \in {e \in OptSet(i.report_entries) : e.text # None}}

PassesClosedAndTime(i, show_closed, since, until) ==
    /\ show_closed \/ i.closed = None
    /\ (since # None \/ until # None) => \E e \in OptSet(i.report_entries) : in_time_bounds(Val(e.created), since, until)

AllTermsOccur(i, terms) ==
    \A k \in DOMAIN terms : \E string \in SearchedStrings(i) : Contains(lower(Chars(terms[k])), lower(string))

\* C12: a record that passes the closed and time filters is yielded exactly
\* when every term occurs, whatever its case, in one of summary, location
\* name, location address, an incident type, a ranger handle or an entry
\* text; a search with no terms, show_closed true and no time bounds
\* yields the records that list_incidents yields.
C12_TermsAreConjoined ==
    Searched =>
        /\ \A n \in DOMAIN storage.path :
              PassesClosedAndTime(Record(n), ret.arg.show_closed, ret.arg.since, ret.arg.until)
                  => (n \in Yielded <=> AllTermsOccur(Record(n), ret.arg.terms))
        /\ (ret.arg.terms = <<>> /\ ret.arg.show_closed /\ ret.arg.since = None /\ ret.arg.until = None)
              => (ret.status = "ok" /\ ret.value = list_incidents(storage).result.value)

(***************************************************************************)
(* ims/store.py: _open_incident when the operating system refuses to open  *)
(* the file.  oserror is None or the errno the open fails with for a       *)
(* reason other than a missing file.                                       *)
(***************************************************************************)
OsErrors == {"EACCES", "ENOSPC"}

\* _open_incident: every IOError and OSError is raised as NoSuchIncidentError.
open_incident(self, number, mode, oserror) ==
    IF oserror # None THEN Raise("NoSuchIncidentError")
    ELSE IF mode = "r" /\ number \notin DOMAIN self.path THEN Raise("NoSuchIncidentError")
    ELSE Return(number)

read_raw_opening(self, number, oserror) ==
    IF open_incident(self, number, "r", oserror).status # "ok" THEN open_incident(self, number, "r", oserror)
    ELSE read_incident_with_number_raw(self, IntKey(number))

read_opening(self, number, oserror, utcnow) ==
    IF open_incident(self, number, "r", oserror).status # "ok" THEN open_incident(self, number, "r", oserror)
    ELSE read_incident_with_number(self, number, utcnow)

etag_opening(self, number, oserror) ==
    IF IntKey(number) \in DOMAIN self.incident_etags THEN etag_for_incident_with_number(self, IntKey(number))
    ELSE IF open_incident(self, number, "r", oserror).status # "ok" THEN Out(self, open_incident(self, number, "r", oserror))
    ELSE etag_for_incident_with_number(self, IntKey(number))

write_opening(self, incident, oserror) ==
    IF ~validate(incident) THEN write_incident(self, incident)
    ELSE IF open_incident(self, incident.number, "w", oserror).status # "ok"
    THEN [self |-> provision(self), result |-> open_incident(self, incident.number, "w", oserror), writes |-> 0]
    ELSE write_incident(self, incident)

OsOutcomes == {None} \cup {Some(e) : e \in OsErrors}

\* A call's outcome, with what the OS answered and whether the file existed.
OpenCall(op, number, oserror, self, result) ==
    [op |-> op, arg |-> number, oserror |-> oserror, existed |-> number \in DOMAIN self.path,
     status |-> result.status, value |-> result.value]

ReadOpening ==
    /\ ret.op = "idle"
    /\ \E number \in Numbers, oserror \in OsOutcomes, utcnow \in Clock :
        /\ ret' = OpenCall("read_incident_with_number", number, oserror, storage, read_opening(storage, number, oserror, utcnow))
        /\ quiet' = FALSE
        /\ UNCHANGED <<storage, returned, present, written, dms>>

ReadRawOpening ==
    /\ ret.op = "idle"
    /\ \E number \in Numbers, oserror \in OsOutcomes :
        /\ ret' = OpenCall("read_incident_with_number_raw", number, oserror, storage, read_raw_opening(storage, number, oserror))
        /\ quiet' = FALSE
        /\ UNCHANGED <<storage, returned, present, written, dms>>

EtagOpening ==
    /\ ret.op = "idle"
    /\ \E number \in Numbers, oserror \in OsOutcomes :
        \E out \in {etag_opening(storage, number, oserror)} :
        /\ storage' = out.self
        /\ ret' = OpenCall("etag_for_incident_with_number", number, oserror, storage, out.result)
        /\ quiet' = FALSE
        /\ UNCHANGED <<returned, present, written, dms>>

WriteOpening ==
    /\ ret.op = "idle"
    /\ \E incident \in WriteInputs, oserror \in OsOutcomes :
        \E out \in {write_opening(storage, incident, oserror)} :
        /\ storage' = out.self
        /\ ret' = OpenCall("write_incident", incident.number, oserror, storage, out.result)
        /\ quiet' = FALSE
        /\ present' = IF out.result.status = "ok" THEN present \cup {incident.number} ELSE present
        /\ written' = IF out.result.status = "ok" THEN (incident.number :> incident) @@ written ELSE written
        /\ UNCHANGED <<returned, dms>>

NextOpening == ReadOpening \/ ReadRawOpening \/ EtagOpening \/ WriteOpening \/ Respond

SpecOpening == InitStore /\ [][NextOpening]_vars

Reads == {"read_incident_with_number", "read_incident_with_number_raw", "etag_for_incident_with_number"}

\* C13: a read, raw read or etag request for a number without a file fails
\* with NoSuchIncidentError; a failure to open an existing file for another
\* reason, and a write the medium refuses, fail with a StorageError that is
\* not a NoSuchIncidentError.
C13_OpenFailures ==
    /\ (ret.op \in Reads /\ ~ret.existed) => ret.status = "NoSuchIncidentError"
    /\ (ret.op \in Reads /\ ret.existed /\ ret.oserror # None /\ ret.status # "ok") => ret.status = "StorageError"
    /\ (ret.op = "write_incident" /\ ret.oserror # None) => ret.status \in {"InvalidDataError", "StorageError"}

(***************************************************************************)
(* Rangers known by their handle only (Ranger.validate, from_json).        *)
(***************************************************************************)

\* from_json has decoded a payload whose ranger_handles is a non-empty list of
\* non-empty handles; the rangers it builds have a null name and status.
C14_Case ==
    /\ ret.op = "from_json"
    /\ ret.arg.rangers # None
    /\ Val(ret.arg.rangers) # <<>>
    /\ \A k \in DOMAIN Val(ret.arg.rangers) : Val(ret.arg.rangers)[k].handle # ""

\* C14: an incident whose rangers all have a non-empty handle, and a null name
\* and status, validates: decoding a payload with non-empty ranger_handles
\* raises no InvalidDataError.
C14_HandleOnlyRangersValidate == C14_Case => ret.status # "InvalidDataError"

(***************************************************************************)
(* The etag of a GET after edits (get_incident, write_incident).           *)
(***************************************************************************)

\* C15: the etag that get_incident returns is the fingerprint of the bytes
\* persisted for that number when it answers, also after edits: it is never
\* the etag an earlier get_incident cached.
C15_EtagIsCurrent ==
    (ret.op = "get_incident" /\ ret.status = "ok")
        => ret.value.etag = etag_hash(storage.path[ret.arg])

(***************************************************************************)
(* The Duty Management System's operations as actions.                     *)
(***************************************************************************)
Hosts == {"h1", "h2"}

Databases == {"d1", "d2"}

Usernames == {"u1", "u2"}

Passwords == {"p1", "p2"}

\* time()
DmsTimes == {4000, 8000}

\* What the query gives: rows, or no answer (the query fails).
DbAnswers ==
    {None, Some(<<>>),
     Some(<<Row("Tool", "T", "", "Ool", "active")>>),
     Some(<<Row("Tool", "T", "", "Ool", "active"), Row("Camp", "C", "M", "Amp", "vintage")>>)}

InitDms ==
    /\ \E host \in Hosts, database \in Databases, username \in Usernames, password \in Passwords :
          dms = Constructed(host, database, username, password)
    /\ storage = NewStorage(<<>>)
    /\ ret = Idle
    /\ returned = <<>>
    /\ quiet = TRUE
    /\ present = {}
    /\ written = <<>>

AccessDbpool ==
    /\ ret.op = "idle"
    /\ \E out \in {dbpool(dms.self)} :
        /\ dms' = [dms EXCEPT !.self = out.self]
        /\ ret' = [op |-> "dbpool", arg |-> None, status |-> out.result.status,
                   value |-> out.result.value, before |-> dms]
    /\ UNCHANGED <<storage, returned, quiet, present, written>>

Rangers ==
    /\ ret.op = "idle"
    /\ \E now \in DmsTimes, then \in DmsTimes, answer \in DbAnswers :
        /\ now <= then
        /\ \E out \in {rangers(dms.self, now, answer, then)} :
            /\ dms' = [dms EXCEPT !.self = out.self, !.raised = @ \/ out.result.status # "ok"]
            /\ ret' = [op |-> "rangers", arg |-> [now |-> now, answer |-> answer],
                       status |-> out.result.status, value |-> out.result.value, before |-> dms]
    /\ UNCHANGED <<storage, returned, quiet, present, written>>

NextDms == AccessDbpool \/ Rangers \/ Respond

SpecDms == InitDms /\ [][NextDms]_vars

\* C16: a rangers() call that fails raises DatabaseError, keeps the roster
\* cached before and marks the cache stale, so that a later call asks the
\* database again.
C16_FailureIsRecoverable ==
    (ret.op = "rangers" /\ ret.status # "ok") =>
        /\ ret.status = "DatabaseError"
        /\ dms.self._rangers = ret.before.self._rangers
        /\ dms.self.rangers_updated = Some(0)

\* C17: a new object records its four arguments and a last update time of 0;
\* every access to dbpool returns a pool made with driver "mysql.connector"
\* and those arguments, and the object never holds None for its pool.
C17_DbpoolIsAPool ==
    /\ dms.self.host = dms.given.host
    /\ dms.self.database = dms.given.database
    /\ dms.self.username = dms.given.username
    /\ dms.self.password = dms.given.password
    /\ dms.self._rangers_updated = 0
    /\ dms.self._dbpool # Some(None)
    /\ ret.op = "dbpool" =>
          /\ ret.status = "ok"
          /\ ret.value = Some(ConnectionPool("mysql.connector", dms.given.host, dms.given.database,
                                             dms.given.username, dms.given.password))

\* dbpool is accessed again, after the pool was made and a rangers() call
\* has raised.
C17_Witness ==
    /\ ret.op = "dbpool"
    /\ ret.before.self._dbpool # None
    /\ ret.before.raised
    /\ ret.value # None

(***************************************************************************)
(* Junk, timeline keys and the state line (edit_incident).                 *)
(***************************************************************************)

\* C18: after a successful edit that adds the Junk type, the persisted
\* record is closed, whatever other keys the payload carries.
C18_JunkIsClosed ==
    (/\ Edited /\ ret.status = "ok"
     /\ JunkAdded(Val(ret.stored).incident_types, Val(ret.edits).incident_types))
        => Persisted(storage, ret.arg.number).closed # None

\* The timeline fields the edit gave a new value that is not null, and those
\* it un-set.
ChangedToValue == {c[1] : c \in {c \in SeqToSet(ret.state_changes) : c[2] # None}}

Unset == {c[1] : c \in {c \in SeqToSet(ret.state_changes) : c[2] = None}}

C20_Case ==
    /\ Edited /\ ret.status = "ok"
    /\ Get(ret.arg.edits_json, "created") = None
    /\ ~JunkAdded(Val(ret.stored).incident_types, Val(ret.edits).incident_types)

\* C20: an edit whose created is null or absent and that adds no Junk type
\* persists the four timeline fields as they were stored and stages no
\* state change, whatever values it carries for the other timeline keys.
C20_TimelineIsKept ==
    C20_Case =>
        /\ \A key \in SeqToSet(states) : Persisted(storage, ret.arg.number)[key] = Val(ret.stored)[key]
        /\ ret.state_changes = <<>>
        /\ \A k \in DOMAIN Appended : Appended[k].system_entry => StateLines(Val(Appended[k].text)) = <<>>

\* The payload carries values for timeline keys that differ from the stored
\* ones.
C20_Witness ==
    /\ C20_Case
    /\ \E key \in TimelineOf(ret.arg.edits_json) \ {"created"} :
          /\ ret.arg.edits_json[key] # None
          /\ Val(ret.stored)[key] = None

(***************************************************************************)
(* Rangers and scalar fields in an edit (edit_incident).                   *)
(***************************************************************************)

\* The handles the payload submits, as a set; None without the key or value.
SubmittedHandles == Get(ret.arg.edits_json, "ranger_handles")

\* The payload is decoded and nothing but its ranger list is at stake: it
\* carries no priority out of range and no entry without text.
C21_Case ==
    /\ Edited /\ ret.edits # None
    /\ ~FailsValidation(ret.arg.edits_json)

\* C21: an edit without ranger_handles, or with null, persists the stored
\* rangers; an edit with an empty list persists no rangers and reports every
\* stored handle as removed; an edit with another list persists exactly that
\* list and reports new-minus-old as added and old-minus-new as removed.
C21_RangersAreEdited ==
    C21_Case =>
        LET old   == Handles(OptSet(Val(ret.stored).rangers))
            after == Persisted(storage, ret.arg.number)
        IN
        /\ ret.status = "ok"
        /\ IF SubmittedHandles = None
           THEN /\ Handles(OptSet(after.rangers)) = old
                /\ \A k \in DOMAIN Appended : Appended[k].system_entry =>
                      \A l \in SeqToSet(Val(Appended[k].text)) : l.what # "ranger handles"
           ELSE LET new == SeqToSet(Val(SubmittedHandles)) IN
                /\ Handles(OptSet(after.rangers)) = new
                /\ (new \ old # {}) =>
                      Line("Added to", "ranger handles", new \ old) \in SeqToSet(Val(Appended[1].text))
                /\ (old \ new # {}) =>
                      Line("Removed from", "ranger handles", old \ new) \in SeqToSet(Val(Appended[1].text))

\* The payload carries the key with a null value.
SubmittedNull(key) == key \in DOMAIN ret.arg.edits_json /\ ret.arg.edits_json[key] = None

\* C22: a successful edit that carries priority, or summary, as null
\* persists that field as it was stored and appends no description of a
\* change of it.
C22_NullScalarIsNoEdit ==
    \A key \in {"priority", "summary"} :
        (Edited /\ ret.status = "ok" /\ SubmittedNull(key)) =>
            /\ Persisted(storage, ret.arg.number)[key] = Val(ret.stored)[key]
            /\ \A k \in DOMAIN Appended : Appended[k].system_entry =>
                  \A l \in SeqToSet(Val(Appended[k].text)) : ~(l.kind = "Changed" /\ l.what = describe(key))

(***************************************************************************)
(* A record edited again and again: edit_incident with few payloads, from  *)
(* a record without entries, up to MaxAppended entries.                    *)
(***************************************************************************)
AppendPayloads ==
    {[summary |-> Some("s")], [summary |-> Some("t")], [priority |-> Some(3)], [priority |-> Some(6)],
     [incident_types |-> Some(<<Junk>>)],
     [report_entries |-> Some(<<>>)], [report_entries |-> Some(<<Entry1>>)],
     [report_entries |-> Some(<<Entry1, Entry2>>)],
     [report_entries |-> Some(<<Entry2>>), summary |-> Some("s")],
     [report_entries |-> Some(<<Entry1, Entry2>>), summary |-> Some("t")]}

AppendInputs == UNION {{<<p, order>> : order \in KeyOrders(p)} : p \in AppendPayloads}

InitAppend ==
    /\ \E i \in {StoredIncident(None, None, None, None, <<>>, None),
                 [StoredIncident(None, None, None, None, <<>>, None) EXCEPT !.report_entries = Some(<<>>)]} :
          storage = NewStorage(EditNumber :> Some(to_json_text(i).value))
    /\ ret = Idle
    /\ returned = <<>>
    /\ quiet = TRUE
    /\ present = DOMAIN storage.path
    /\ written = <<>>
    /\ dms = ConfiguredDms

EditAgain ==
    /\ ret.op = "idle"
    /\ \E number \in DOMAIN storage.path :
      /\ EntriesStored(storage, number) < MaxAppended
      /\ \E input \in AppendInputs, now \in Clock :
        \E out \in {edit_incident(storage, number, input[1], input[2], Avatar, now)} :
        /\ storage' = out.self
        /\ ret' = [op |-> "edit_incident",
                   arg |-> [number |-> number, edits_json |-> input[1], order |-> input[2], now |-> now],
                   status |-> out.result.status, value |-> out.result.value,
                   before |-> storage, stored |-> out.stored, edits |-> out.edits,
                   state_changes |-> out.state_changes, system_messages |-> out.system_messages,
                   user_entries |-> out.user_entries, incident |-> out.incident, writes |-> out.writes]
        /\ quiet' = FALSE
        /\ present' = IF out.result.status = "ok" THEN present \cup {number} ELSE present
        /\ written' = IF out.result.status = "ok" THEN (number :> Val(out.incident)) @@ written ELSE written
        /\ UNCHANGED <<returned, dms>>

NextAppend == EditAgain \/ Respond

SpecAppend == InitAppend /\ [][NextAppend]_vars

(***************************************************************************)
(* Report entries over a sequence of edits.                                *)
(***************************************************************************)

\* The entries the payload submits.
SubmittedEntries ==
    IF Get(ret.arg.edits_json, "report_entries") = None THEN <<>> ELSE Val(ret.arg.edits_json["report_entries"])

\* C23: the entries persisted before a successful edit are a prefix of those
\* persisted after it; what the edit adds is at most one system entry, there
\* exactly when a change was described, and then the submitted entries in
\* the order submitted.
C23_EntriesAreAppendOnly ==
    (Edited /\ ret.status = "ok") =>
        LET before == Val(Persisted(ret.before, ret.arg.number).report_entries)
            after  == Val(Persisted(storage, ret.arg.number).report_entries)
            system == IF ret.system_messages # <<>> THEN 1 ELSE 0
        IN
        /\ Len(before) <= Len(after)
        /\ SubSeq(after, 1, Len(before)) = before
        /\ Len(after) = Len(before) + system + Len(SubmittedEntries)
        /\ system = 1 =>
              /\ after[Len(before) + 1].system_entry = TRUE
              /\ after[Len(before) + 1].text = Some(ret.system_messages)
        /\ \A k \in DOMAIN SubmittedEntries :
              after[Len(before) + system + k] = Submitted(SubmittedEntries[k], ret.arg.now)

\* An edit appends a system entry and two entries of the user after the
\* system entry and the entries earlier edits appended.
C23_Witness ==
    /\ Edited /\ ret.status = "ok"
    /\ ret.system_messages # <<>>
    /\ Len(SubmittedEntries) = 2
    /\ Len(Val(Val(ret.stored).report_entries)) >= 2
    /\ \E k \in DOMAIN Val(Val(ret.stored).report_entries) :
          Val(Val(ret.stored).report_entries)[k].system_entry

(***************************************************************************)
(* A write that fails (write_incident).                                    *)
(***************************************************************************)

\* C29: a write_incident call that raises leaves every file of the
\* directory as it was: the bytes persisted under the number are unchanged
\* and no file is left empty.
C29_FailedWriteKeepsRecord ==
    [][(ret'.op = "write_incident" /\ ret'.status # "ok") => storage'.path = storage.path]_vars

(***************************************************************************)
(* write_incident statement by statement.  ret is the call in progress:    *)
(* pc is the statement to run next, error the exception on its way out of  *)
(* the try block, before the store when the call began.                    *)
(***************************************************************************)
Step(self, pc, error) == [self |-> self, pc |-> pc, error |-> error]

write_incident_step(self, incident, pc, error) ==
    LET number == incident.number IN
    CASE pc = "validate" ->
           IF validate(incident) THEN Step(self, "provision", None)
           ELSE Step(self, "raised", Some("InvalidDataError"))
      [] pc = "provision" -> Step(provision(self), "open", None)
      [] pc = "open" -> Step([self EXCEPT !.path = (number :> None) @@ @], "write", None)
      [] pc = "write" ->
           LET text == to_json_text(incident) IN
           IF text.status # "ok" THEN Step(self, "close", Some(text.status))
           ELSE Step([self EXCEPT !.path = (number :> Some(text.value)) @@ @], "close", None)
      [] pc = "close" ->
           IF error # None THEN Step(self, "raised", error) ELSE Step(self, "mark_if_listed", None)
      [] pc = "mark_if_listed" ->
           IF self.incidents # None
           THEN Step([self EXCEPT !.incidents = Some(Val(@) \cup {number})], "clear_etag", None)
           ELSE Step(self, "clear_etag", None)
      [] pc = "clear_etag" ->
           Step([self EXCEPT !.incident_etags = ClearEtag(@, number)], "mark", None)
      [] pc = "mark" ->
           IF self.incidents = None THEN Step(self, "raised", Some("TypeError"))
           ELSE Step([self EXCEPT !.incidents = Some(Val(@) \cup {number})], "update_max", None)
      [] pc = "update_max" ->
           Step([self EXCEPT !.max_incident_number = Some(UpdateMax(Val(@), number))], "returned", None)

\* The call begins.
WriteBegins ==
    /\ ret.op = "idle"
    /\ \E incident \in WriteInputs :
          ret' = [op |-> "write_incident", arg |-> incident, pc |-> "validate", error |-> None,
                  status |-> "running", value |-> None, before |-> storage]
    /\ quiet' = FALSE
    /\ UNCHANGED <<storage, returned, present, written, dms>>

\* The next statement runs.
WriteStep ==
    /\ ret.op = "write_incident"
    /\ ret.pc \notin {"returned", "raised"}
    /\ \E out \in {write_incident_step(storage, ret.arg, ret.pc, ret.error)} :
        /\ storage' = out.self
        /\ ret' = [ret EXCEPT !.pc = out.pc, !.error = out.error,
                              !.status = IF out.pc = "raised" THEN Val(out.error)
                                         ELSE IF out.pc = "returned" THEN "ok" ELSE "running"]
        /\ present' = IF out.pc = "returned" THEN present \cup {ret.arg.number} ELSE present
        /\ written' = IF out.pc = "returned" THEN (ret.arg.number :> ret.arg) @@ written ELSE written
    /\ UNCHANGED <<returned, quiet, dms>>

\* The call has returned or raised.
WriteEnds ==
    /\ ret.op = "write_incident"
    /\ ret.pc \in {"returned", "raised"}
    /\ ret' = Idle
    /\ UNCHANGED <<storage, returned, quiet, present, written, dms>>

NextWrite == WriteBegins \/ WriteStep \/ WriteEnds

SpecWrite == InitStore /\ [][NextWrite]_vars

\* The statements of the call add up to the call.
WriteStepsAreTheCall ==
    (ret.op = "write_incident" /\ ret.pc \in {"returned", "raised"}) =>
        /\ storage = write_incident(ret.before, ret.arg).self
        /\ ret.status = write_incident(ret.before, ret.arg).result.status

\* The numbers known to the store: those in its cache.
Known(self) == IF self.incidents = None THEN {} ELSE Val(self.incidents)

\* The numbers known when the call in progress began: those cached, or the
\* files of the directory when nothing was listed yet.
KnownBefore == IF ret.before.incidents = None THEN DOMAIN ret.before.path ELSE Val(ret.before.incidents)

\* C24: in a write, once the file is written, the number is not marked
\* known before its cached etag is cleared and the maximum is updated: in
\* every state of the call, a number that the call has made known has no
\* cached etag and is not above the maximum.
C24_KnownIsMarkedLast ==
    (/\ ret.op = "write_incident"
     /\ ret.pc \in {"clear_etag", "mark", "update_max", "returned"}
     /\ ret.arg.number \in Known(storage) \ KnownBefore)
        => /\ IntKey(ret.arg.number) \notin DOMAIN storage.incident_etags
           /\ storage.max_incident_number # None
           /\ ret.arg.number <= Val(storage.max_incident_number)

\* C25: in every state of a store, the states between the statements of a
\* write included, every known number has a file, and the file holds a
\* record written completely.
C25_KnownHasFile ==
    \A n \in Known(storage) : n \in DOMAIN storage.path /\ storage.path[n] # None

(***************************************************************************)
(* The time bounds of a search (search_incidents).                         *)
(***************************************************************************)

NotAfter(a, b) == a = b \/ Earlier(a, b)

\* The record has an entry created at or after since and at or before
\* until, where a bound that is not given does not bind.
HasEntryWithin(i, since, until) ==
    \E e \in OptSet(i.report_entries) :
        /\ since # None => NotAfter(Val(since), Val(e.created))
        /\ until # None => NotAfter(Val(e.created), Val(until))

\* C26: a search with since or until yields only records with an entry
\* created within the bounds, so none without entries; a search without
\* bounds that ends yields every record that passes the closed filter and
\* the terms.
C26_TimeBounds ==
    Searched =>
        /\ (ret.arg.since # None \/ ret.arg.until # None) =>
              \A n \in Yielded : HasEntryWithin(Record(n), ret.arg.since, ret.arg.until)
        /\ (ret.arg.since = None /\ ret.arg.until = None /\ ret.status = "ok") =>
              \A n \in DOMAIN storage.path :
                  ((ret.arg.show_closed \/ Record(n).closed = None) /\ AllTermsOccur(Record(n), ret.arg.terms))
                      => n \in Yielded

\* A search with a bound yields a record and leaves out an open record
\* without entries that it was not given terms to exclude.
C26_Witness ==
    /\ Searched /\ ret.status = "ok"
    /\ ret.arg.since # None
    /\ ret.arg.terms = <<>>
    /\ Yielded # {}
    /\ \E n \in DOMAIN storage.path \ Yielded :
          Record(n).closed = None /\ Record(n).report_entries = Some(<<>>)

(***************************************************************************)
(* The order of the payload's keys (edit_incident).                        *)
(***************************************************************************)

\* The edit just made, had its keys been iterated in another order.
OtherOrder(order) ==
    edit_incident(ret.before, ret.arg.number, ret.arg.edits_json, order, Avatar, ret.arg.now)

\* C27: whatever the order in which the keys of a payload are iterated, the
\* edit has the same outcome, the same four timeline fields and the same
\* state line.
C27_OrderIsIrrelevant ==
    Edited =>
        \A order \in KeyOrders(ret.arg.edits_json) :
            \E other \in {OtherOrder(order)} :
                /\ other.result.status = ret.status
                /\ StateLines(other.system_messages) = StateLines(ret.system_messages)
                /\ ret.status = "ok" =>
                      \A key \in SeqToSet(states) : Val(other.incident)[key] = Val(ret.incident)[key]

(***************************************************************************)
(* created is never un-set (edit_incident).                                *)
(***************************************************************************)

\* C28: no edit stages created with a null time, and a successful edit of a
\* record whose created is set persists created set; so when only un-sets
\* are staged, created is not among them and the state before the lowest
\* un-set field exists and is reported.
C28_CreatedIsNeverUnset ==
    (Edited /\ ret.stored # None) =>
        /\ "created" \notin Unset
        /\ (ret.status = "ok" /\ Val(ret.stored).created # None) =>
              Persisted(storage, ret.arg.number).created # None
        /\ (ret.edits # None /\ ChangedToValue = {} /\ Unset # {}) =>
              /\ ret.status # "AttributeError"
              /\ \E key \in Unset :
                    /\ \A j \in Unset : stateIndex(key) <= stateIndex(j)
                    /\ stateIndex(key) > 1
                    /\ StateLines(ret.system_messages) =
                          <<Line("State changed to", describe(states[stateIndex(key) - 1]), {})>>

\* A successful edit that carries created and only un-sets fields of a
\* record whose created is set.
C28_Witness ==
    /\ Edited /\ ret.status = "ok"
    /\ Val(ret.stored).created # None
    /\ Get(ret.arg.edits_json, "created") # None
    /\ ChangedToValue = {}
    /\ Cardinality(Unset) >= 2

(***************************************************************************)
(* rangers() calls that do not query (DutyManagementSystem.rangers).       *)
(***************************************************************************)

\* The call found the roster stale and asked the database.
StartsQuery ==
    /\ ret.before.self.rangers_updated # None
    /\ ret.arg.now - Val(ret.before.self.rangers_updated) > rangers_cache_interval

\* C30: a rangers() call that starts no query, as every call made while a
\* fetch is in flight and within the cache interval, returns a roster list
\* and does not fail, also when no list was fetched before.
C30_CallsReturnARoster ==
    (ret.op = "rangers" /\ ~StartsQuery) => ret.status = "ok"

====
